---- MODULE Spec2Model ----
(***************************************************************************)
(* Model of beliefs/factors/discrete_factor.py (class DiscreteFactor).     *)
(*                                                                         *)
(* Python objects live in a heap: a sequence of cells addressed by their   *)
(* position.  A list, an ndarray, a dict and a DiscreteFactor are cells;   *)
(* attributes and dict entries hold addresses, so that aliasing between    *)
(* two factors is a fact of the state and not of the notation.  numpy      *)
(* arrays are a shape and the row-major sequence of their elements.        *)
(* Axis numbers and coordinates are 0-based, as in the source.             *)
(***************************************************************************)
EXTENDS Integers, Sequences, FiniteSets, TLC

VARIABLES heap, objs, made, last

vars == <<heap, objs, made, last>>

-----------------------------------------------------------------------------
(* Bounds of the model.                                                    *)

\* largest domain size of a variable
MaxCard == 2
\* most variables in the scope of a constructed factor
MaxLen == 2
\* most calls the caller makes in a row
MaxCalls == 2
\* values supplied by the caller are Base, Base+1, ... for Base in 1..MaxBase
MaxBase == 2

Vars == {"x", "y", "z"}

\* a fixed enumeration of the identifiers, used to walk dict keys
VarOrder == <<"x", "y", "z", "w">>

LabelPool == <<"s0", "s1", "s2", "s3">>

None == 0

-----------------------------------------------------------------------------
(* Sequences.                                                              *)

Range(s) == {s[i] : i \in DOMAIN s}

NoDup(s) == \A i, j \in DOMAIN s : s[i] = s[j] => i = j

RECURSIVE Prod(_)
Prod(s) == IF s = <<>> THEN 1 ELSE s[1] * Prod(Tail(s))

RECURSIVE SumSeq(_)
SumSeq(s) == IF s = <<>> THEN 0 ELSE s[1] + SumSeq(Tail(s))

\* list.index(v): 0-based position of the first occurrence
IndexOf(s, v) == (CHOOSE i \in DOMAIN s : s[i] = v /\ \A j \in 1..(i - 1) : s[j] # v) - 1

\* all enumerations of a finite set without repetition
Perms(S) == {s \in [1..Cardinality(S) -> S] : \A i, j \in DOMAIN s : s[i] = s[j] => i = j}

\* sorted(S) for a set of integers
RECURSIVE Sorted(_)
Sorted(S) ==
  IF S = {} THEN <<>>
  ELSE LET m == CHOOSE a \in S : \A b \in S : a <= b
       IN <<m>> \o Sorted(S \ {m})

-----------------------------------------------------------------------------
(* numpy arrays: [shape, data], data in row-major (C) order.               *)

Size(shape) == Prod(shape)

\* coordinate of the element at 0-based flat offset k
RECURSIVE Unravel(_, _)
Unravel(shape, k) ==
  IF shape = <<>> THEN <<>>
  ELSE LET rest == Tail(shape)
           sz == Prod(rest)
       IN <<k \div sz>> \o Unravel(rest, k % sz)

\* 0-based flat offset of a coordinate
RECURSIVE Ravel(_, _)
Ravel(shape, c) ==
  IF shape = <<>> THEN 0
  ELSE c[1] * Prod(Tail(shape)) + Ravel(Tail(shape), Tail(c))

Coords(shape) == {Unravel(shape, k) : k \in 0..(Size(shape) - 1)}

At(a, c) == a.data[Ravel(a.shape, c) + 1]

\* a[slice(None)]*n + [np.newaxis]*k : k axes of extent 1 after the first n
NewAxes(a, n, k) ==
  [shape |-> SubSeq(a.shape, 1, n) \o [i \in 1..k |-> 1] \o SubSeq(a.shape, n + 1, Len(a.shape)),
   data |-> a.data]

\* np.moveaxis(a, source, destination) is a.transpose(order) with
\* order[destination[i]] = source[i]
MoveAxisOrder(source, destination) ==
  [d \in 1..Len(destination) |->
     source[CHOOSE i \in DOMAIN destination : destination[i] = d - 1]]

MoveAxisOk(a, source, destination) ==
  /\ Len(source) = Len(destination)
  /\ Len(source) = Len(a.shape)
  /\ NoDup(destination)
  /\ NoDup(source)
  /\ \A i \in DOMAIN destination : destination[i] \in 0..(Len(a.shape) - 1)

MoveAxis(a, source, destination) ==
  LET order == MoveAxisOrder(source, destination)
      shp == [d \in 1..Len(order) |-> a.shape[order[d] + 1]]
      src(c) == [j \in 1..Len(order) |->
                   c[CHOOSE d \in DOMAIN order : order[d] = j - 1]]
  IN [shape |-> shp,
      data |-> [k \in 1..Size(shp) |-> At(a, src(Unravel(shp, k - 1)))]]

\* broadcasting: shapes are aligned at their last axis
PadShape(shape, n) == [i \in 1..(n - Len(shape)) |-> 1] \o shape

Max(a, b) == IF a >= b THEN a ELSE b

BroadcastOk(s1, s2) ==
  LET n == Max(Len(s1), Len(s2))
      p1 == PadShape(s1, n)
      p2 == PadShape(s2, n)
  IN \A i \in 1..n : p1[i] = p2[i] \/ p1[i] = 1 \/ p2[i] = 1

BroadcastShape(s1, s2) ==
  LET n == Max(Len(s1), Len(s2))
      p1 == PadShape(s1, n)
      p2 == PadShape(s2, n)
  IN [i \in 1..n |-> IF p1[i] = 1 THEN p2[i] ELSE p1[i]]

\* the element of a (padded to the rank of c) that broadcasts to coordinate c
BroadcastAt(a, c) ==
  LET p == PadShape(a.shape, Len(c))
      cc == [i \in 1..Len(c) |-> IF p[i] = 1 THEN 0 ELSE c[i]]
  IN At(a, SubSeq(cc, Len(c) - Len(a.shape) + 1, Len(c)))

\* a * b
ArrayMul(a, b) ==
  LET shp == BroadcastShape(a.shape, b.shape)
  IN [shape |-> shp,
      data |-> [k \in 1..Size(shp) |->
                  LET c == Unravel(shp, k - 1)
                  IN BroadcastAt(a, c) * BroadcastAt(b, c)]]

\* a * scalar
ArrayScale(a, s) == [shape |-> a.shape, data |-> [k \in DOMAIN a.data |-> a.data[k] * s]]

\* np.sum(a, axis=axes)
SumOk(a, axes) ==
  /\ NoDup(axes)
  /\ \A i \in DOMAIN axes : axes[i] \in 0..(Len(a.shape) - 1)

SumAxes(a, axes) ==
  LET keep == Sorted((0..(Len(a.shape) - 1)) \ Range(axes))
      shp == [d \in 1..Len(keep) |-> a.shape[keep[d] + 1]]
      under(c, k) == LET f == Unravel(a.shape, k - 1)
                     IN \A d \in 1..Len(keep) : f[keep[d] + 1] = c[d]
      total(c) == SumSeq([k \in 1..Size(a.shape) |-> IF under(c, k) THEN a.data[k] ELSE 0])
  IN [shape |-> shp,
      data |-> [k \in 1..Size(shp) |-> total(Unravel(shp, k - 1))]]

-----------------------------------------------------------------------------
(* The heap.  An outcome of a call is the heap it leaves, the address it   *)
(* returns and the exception it raised ("ok" when none).                   *)

ListCell(items) == [kind |-> "list", items |-> items]

ArrayCell(a) == [kind |-> "ndarray", shape |-> a.shape, data |-> a.data]

DictCell(m) == [kind |-> "dict", map |-> m]

FactorCell(v, c, a, s) ==
  [kind |-> "factor", variables |-> v, cardinality |-> c, values |-> a, state_names |-> s]

Ok(h, r) == [heap |-> h, ret |-> r, exc |-> "ok"]

Raise(h, e) == [heap |-> h, ret |-> None, exc |-> e]

\* an optional sequence of numbers passed as the `values` argument
NoValues == [present |-> FALSE, data |-> <<>>]

SomeValues(d) == [present |-> TRUE, data |-> d]

Arr(h, a) == [shape |-> h[a].shape, data |-> h[a].data]

\* __init__(self, variables, cardinality, values=None, state_names=None)
DiscreteFactor(h, variables, cardinality, values, state_names) ==
  IF ~values.present
  THEN Ok(h \o <<ListCell(variables), ListCell(cardinality),
                 FactorCell(Len(h) + 1, Len(h) + 2, None, state_names)>>,
          Len(h) + 3)
  ELSE IF Len(values.data) # Prod(cardinality)
  THEN Raise(h \o <<ListCell(variables), ListCell(cardinality)>>, "ValueError")
  ELSE Ok(h \o <<ListCell(variables), ListCell(cardinality),
                 ArrayCell([shape |-> cardinality, data |-> values.data]),
                 FactorCell(Len(h) + 1, Len(h) + 2, Len(h) + 3, state_names)>>,
          Len(h) + 4)

\* the keys of a dict, in the fixed enumeration
Keys(m) == SelectSeq(VarOrder, LAMBDA k : k \in DOMAIN m)

\* copy.deepcopy of a dict of lists: new label lists, then the new dict
deepcopy_dict(h, m, keys) ==
  Ok(h \o [i \in DOMAIN keys |-> ListCell(h[m[keys[i]]].items)]
       \o <<DictCell([k \in DOMAIN m |-> Len(h) + 1 + IndexOf(keys, k)])>>,
     Len(h) + Len(keys) + 1)

\* copy.deepcopy(self.state_names)
deepcopy(h, d) == IF d = None THEN Ok(h, None) ELSE deepcopy_dict(h, h[d].map, Keys(h[d].map))

\* the `values` argument copy() passes on
ValuesArg(h, self) ==
  IF h[self].values = None THEN NoValues ELSE SomeValues(h[h[self].values].data)

\* self.__class__(variables, cardinality, _values, <the deep copy>)
copy_init(dc, variables, cardinality, values) ==
  DiscreteFactor(dc.heap, variables, cardinality, values, dc.ret)

\* a slip: the label mapping handed over as it is, not deep-copied
copy_shared_names(h, self) ==
  copy_init(Ok(h, h[self].state_names), h[h[self].variables].items,
            h[h[self].cardinality].items, ValuesArg(h, self))

\* copy(self)
copy(h, self) ==
  copy_init(deepcopy(h, h[self].state_names), h[h[self].variables].items,
            h[h[self].cardinality].items, ValuesArg(h, self))

deepcopy_factor_new(dc, v, c, a) ==
  Ok(Append(dc.heap, FactorCell(v, c, a, dc.ret)), Len(dc.heap) + 1)

\* copy.deepcopy(self), as marginalize takes it: every attribute is copied
deepcopy_factor(h, self) ==
  deepcopy_factor_new(
    deepcopy(h \o <<ListCell(h[h[self].variables].items), ListCell(h[h[self].cardinality].items)>>
               \o (IF h[self].values = None THEN <<>>
                   ELSE <<ArrayCell(Arr(h, h[self].values))>>),
             h[self].state_names),
    Len(h) + 1, Len(h) + 2, IF h[self].values = None THEN None ELSE Len(h) + 3)

\* update_values(self, new_values)
update_values(h, self, new_values) ==
  IF Len(new_values) # Prod(h[h[self].cardinality].items)
  THEN Raise(h, "ValueError")
  ELSE Ok([Append(h, ArrayCell([shape |-> h[h[self].cardinality].items, data |-> new_values]))
             EXCEPT ![self].values = Len(h) + 1], None)

\* get_cardinality(self, variables)
get_cardinality(h, self, variables) ==
  [var \in variables |->
     h[h[self].cardinality].items[IndexOf(h[h[self].variables].items, var) + 1]]

\* a slip: the cardinalities appended in the reverse of the iteration order
add_new_cardinality_reversed(h, self, other, iter) ==
  Ok([h EXCEPT ![h[self].cardinality].items =
                 @ \o [i \in DOMAIN iter |->
                         get_cardinality(h, other, Range(iter))[iter[Len(iter) + 1 - i]]]],
     None)

\* lines 100-101: the cardinalities of the new variables, as other reports them
add_new_cardinality(h, self, other, iter) ==
  Ok([h EXCEPT ![h[self].cardinality].items =
                 @ \o [i \in DOMAIN iter |-> get_cardinality(h, other, Range(iter))[iter[i]]]],
     None)

\* lines 92-98: nothing to do, or new trailing axes and the new variables
add_new_values(h, self, other, iter) ==
  IF iter = <<>> THEN Ok(h, None)
  ELSE IF h[self].values = None THEN Raise(h, "TypeError")
  ELSE IF Len(h[h[self].values].shape) < Len(h[h[self].variables].items)
  THEN Raise(h, "IndexError")
  ELSE add_new_cardinality(
         [Append(h, ArrayCell(NewAxes(Arr(h, h[self].values),
                                      Len(h[h[self].variables].items), Len(iter))))
            EXCEPT ![self].values = Len(h) + 1,
                   ![h[self].variables].items = @ \o iter],
         self, other, iter)

\* extra_vars = set(other.variables) - set(self.variables)
ExtraVars(h, self, other) ==
  Range(h[h[other].variables].items) \ Range(h[h[self].variables].items)

\* the order in which a set is iterated, given the order of its hash table
SetIter(S, order) == SelectSeq(order, LAMBDA v : v \in S)

\* add_new_variables_from_other_factor(self, other)
add_new_variables_from_other_factor(h, self, other, order) ==
  add_new_values(h, self, other, SetIter(ExtraVars(h, self, other), order))

\* line 125: left._values = left.values * right.values
product_multiply(h, left, right) ==
  IF h[left].values = None THEN Raise(h, "TypeError")
  ELSE IF ~BroadcastOk(h[h[left].values].shape, h[h[right].values].shape)
  THEN Raise(h, "ValueError")
  ELSE Ok([Append(h, ArrayCell(ArrayMul(Arr(h, h[left].values), Arr(h, h[right].values))))
             EXCEPT ![left].values = Len(h) + 1], left)

\* line 124: right._values = np.moveaxis(right.values, source_axes, destination_axes)
product_moveaxis(h, left, right, source_axes, destination_axes) ==
  IF ~MoveAxisOk(Arr(h, h[right].values), source_axes, destination_axes)
  THEN Raise(h, "ValueError")
  ELSE product_multiply(
         [Append(h, ArrayCell(MoveAxis(Arr(h, h[right].values), source_axes, destination_axes)))
            EXCEPT ![right].values = Len(h) + 1],
         left, right)

\* line 120
DestinationAxes(lvars, rvars) == [i \in DOMAIN lvars |-> IndexOf(rvars, lvars[i])]

\* line 121: right.variables = [right.variables[idx] for idx in destination_axes]
product_reorder(h, left, right, source_axes, destination_axes) ==
  product_moveaxis(
    [Append(h, ListCell([i \in DOMAIN destination_axes |->
                           h[h[right].variables].items[destination_axes[i] + 1]]))
       EXCEPT ![right].variables = Len(h) + 1],
    left, right, source_axes, destination_axes)

\* lines 118-126: reorder the variables of right to match left, and multiply
product_align(h, left, right) ==
  IF h[right].values = None THEN Raise(h, "AttributeError")
  ELSE product_reorder(h, left, right,
                       [i \in 1..Len(h[h[right].values].shape) |-> i - 1],
                       DestinationAxes(h[h[left].variables].items, h[h[right].variables].items))

product_extended(e, left, right) ==
  IF e.exc # "ok" THEN e ELSE product_align(e.heap, left, right)

\* line 116: right.add_new_variables_from_other_factor(left)
product_extend_right(e, left, right, order) ==
  IF e.exc # "ok" THEN e
  ELSE product_extended(add_new_variables_from_other_factor(e.heap, right, left, order),
                        left, right)

\* lines 114-115: right = other.copy(); left.add_new_variables_from_other_factor(right)
product_extend_left(r, left, order) ==
  IF r.exc # "ok" THEN r
  ELSE product_extend_right(add_new_variables_from_other_factor(r.heap, left, r.ret, order),
                            left, r.ret, order)

\* a Python value passed as `other`
FactorArg(f) == [kind |-> "factor", ref |-> f, num |-> 0]

NumberArg(n) == [kind |-> "number", ref |-> None, num |-> n]

StringArg == [kind |-> "str", ref |-> None, num |-> 0]

\* lines 109-116, with left the copy of self
product_of(l, self, other, order) ==
  IF l.exc # "ok" THEN l
  ELSE IF other.kind = "number"
  THEN IF l.heap[self].values = None THEN Raise(l.heap, "TypeError")
       ELSE Ok(Append(l.heap, ArrayCell(ArrayScale(Arr(l.heap, l.heap[self].values), other.num))),
               Len(l.heap) + 1)
  ELSE IF other.kind # "factor" THEN Raise(l.heap, "AssertionError")
  ELSE product_extend_left(copy(l.heap, other.ref), l.ret, order)

\* a slip: left = self, the operand itself and not a copy of it
product_in_place(h, self, other, order) == product_of(Ok(h, self), self, other, order)

\* product(self, other): left = self.copy() comes first
product(h, self, other, order) == product_of(copy(h, self), self, other, order)

\* line 148: np.sum of an absent buffer is left open, `lenient` says whether
\* numpy lets it through
marginalize_sum(h, phi, var_indexes, lenient) ==
  IF h[phi].values = None
  THEN IF lenient THEN Ok(h, phi) ELSE Raise(h, "TypeError")
  ELSE IF ~SumOk(Arr(h, h[phi].values), var_indexes)
  THEN Raise(h, "ValueError")
  ELSE Ok([Append(h, ArrayCell(SumAxes(Arr(h, h[phi].values), var_indexes)))
             EXCEPT ![phi].values = Len(h) + 1], phi)

\* lines 145-147: the kept variables and their cardinalities, in scope order
marginalize_keep(h, self, phi, var_indexes, index_to_keep, lenient) ==
  marginalize_sum(
    [h \o <<ListCell([i \in DOMAIN index_to_keep |->
                        h[h[self].variables].items[index_to_keep[i] + 1]]),
            ListCell([i \in DOMAIN index_to_keep |->
                        h[h[self].cardinality].items[index_to_keep[i] + 1]])>>
       EXCEPT ![phi].variables = Len(h) + 1, ![phi].cardinality = Len(h) + 2],
    phi, var_indexes, lenient)

\* lines 138-145
VarIndexes(svars, varsToRemove) == [i \in DOMAIN varsToRemove |-> IndexOf(svars, varsToRemove[i])]

IndexToKeep(n, var_indexes) == Sorted((0..(n - 1)) \ Range(var_indexes))

marginalize_of(d, self, varsToRemove, lenient) ==
  IF \E i \in DOMAIN varsToRemove :
       varsToRemove[i] \notin Range(d.heap[d.heap[d.ret].variables].items)
  THEN Raise(d.heap, "ValueError")
  ELSE marginalize_keep(
         d.heap, self, d.ret,
         VarIndexes(d.heap[d.heap[self].variables].items, varsToRemove),
         IndexToKeep(Len(d.heap[d.heap[self].variables].items),
                     VarIndexes(d.heap[d.heap[self].variables].items, varsToRemove)),
         lenient)

\* marginalize(self, vars): phi = copy.deepcopy(self) comes first
marginalize(h, self, varsToRemove, lenient) ==
  marginalize_of(deepcopy_factor(h, self), self, varsToRemove, lenient)

\* values[tuple(coords)]: the sub-array under the leading coordinates
SubArray(a, coords) ==
  LET rest == SubSeq(a.shape, Len(coords) + 1, Len(a.shape))
  IN [shape |-> rest,
      data |-> [k \in 1..Size(rest) |-> At(a, coords \o Unravel(rest, k - 1))]]

NoArr == [shape |-> <<>>, data |-> <<>>]

Found(h, a) == [heap |-> h, ret |-> None, exc |-> "ok", val |-> a]

NotFound(h, e) == [heap |-> h, ret |-> None, exc |-> e, val |-> NoArr]

\* a slip: the coordinates taken in the reverse order of the variables
lookup_values_reversed(h, self, state_coordinates) ==
  IF h[self].values = None THEN NotFound(h, "TypeError")
  ELSE IF \/ Len(state_coordinates) > Len(h[h[self].values].shape)
          \/ \E i \in DOMAIN state_coordinates :
               state_coordinates[Len(state_coordinates) + 1 - i] >= h[h[self].values].shape[i]
  THEN NotFound(h, "IndexError")
  ELSE Found(h, SubArray(Arr(h, h[self].values),
                         [i \in DOMAIN state_coordinates |->
                            state_coordinates[Len(state_coordinates) + 1 - i]]))

\* line 86: self.values[tuple(state_coordinates)]
lookup_values(h, self, state_coordinates) ==
  IF h[self].values = None THEN NotFound(h, "TypeError")
  ELSE IF \/ Len(state_coordinates) > Len(h[h[self].values].shape)
          \/ \E i \in DOMAIN state_coordinates :
               state_coordinates[i] >= h[h[self].values].shape[i]
  THEN NotFound(h, "IndexError")
  ELSE Found(h, SubArray(Arr(h, h[self].values), state_coordinates))

\* the variables whose label self.state_names cannot resolve
Unresolved(h, variables, names, dict_of_states) ==
  {i \in DOMAIN variables :
     \/ variables[i] \notin DOMAIN names
     \/ dict_of_states[variables[i]] \notin Range(h[names[variables[i]]].items)}

\* lines 81-85: the index of each label on its variable's axis
lookup_labels(h, self, variables, names, dict_of_states, unresolved) ==
  IF unresolved # {}
  THEN IF variables[CHOOSE k \in unresolved : \A j \in unresolved : k <= j] \notin DOMAIN names
       THEN NotFound(h, "KeyError")
       ELSE NotFound(h, "ValueError")
  ELSE lookup_values(h, self,
                     [i \in DOMAIN variables |->
                        IndexOf(h[names[variables[i]]].items, dict_of_states[variables[i]])])

\* get_value_for_state_vector(self, dict_of_states); the assertion compares
\* the sorted keys with the sorted variables
get_value_for_state_vector(h, self, dict_of_states) ==
  IF ~(/\ NoDup(h[h[self].variables].items)
       /\ Range(h[h[self].variables].items) = DOMAIN dict_of_states)
  THEN NotFound(h, "AssertionError")
  ELSE IF h[h[self].variables].items = <<>>
  THEN lookup_values(h, self, <<>>)
  ELSE IF h[self].state_names = None
  THEN NotFound(h, "TypeError")
  ELSE lookup_labels(h, self, h[h[self].variables].items, h[h[self].state_names].map,
                     dict_of_states,
                     Unresolved(h, h[h[self].variables].items, h[h[self].state_names].map,
                                dict_of_states))

-----------------------------------------------------------------------------
(* What a factor holds, read through the heap, and the cells it reaches.   *)

ValuesOf(h, f) == IF h[f].values = None THEN NoArr ELSE Arr(h, h[f].values)

NamesOf(h, f) ==
  IF h[f].state_names = None
  THEN [present |-> FALSE, map |-> [k \in {} |-> <<>>]]
  ELSE [present |-> TRUE,
        map |-> [k \in DOMAIN h[h[f].state_names].map |-> h[h[h[f].state_names].map[k]].items]]

View(h, f) ==
  [variables |-> h[h[f].variables].items,
   cardinality |-> h[h[f].cardinality].items,
   values |-> ValuesOf(h, f),
   state_names |-> NamesOf(h, f)]

Present(f) == f.values # NoArr

Reach(h, f) ==
  LET direct == {h[f].variables, h[f].cardinality, h[f].values, h[f].state_names} \ {None}
      labels == IF h[f].state_names = None THEN {}
                ELSE {h[h[f].state_names].map[k] : k \in DOMAIN h[h[f].state_names].map}
  IN {f} \cup direct \cup labels

-----------------------------------------------------------------------------
(* The caller: the arguments it builds and the calls it makes.             *)

\* duplicate-free scopes of at most n variables
Scopes(n) == UNION {Perms(S) : S \in {T \in SUBSET Vars : Cardinality(T) <= n}}

\* the flat values Base, Base+1, ...
Ramp(n, base) == [k \in 1..n |-> base + k - 1]

Labels(c) == SubSeq(LabelPool, 1, c)

\* {var: [labels]} for the variables of a scope, as the caller writes it
NewStateNames(h, scope, card) ==
  Ok(h \o [i \in DOMAIN scope |-> ListCell(Labels(card[scope[i]]))]
       \o <<DictCell([v \in Range(scope) |-> Len(h) + 1 + IndexOf(scope, v)])>>,
     Len(h) + Len(scope) + 1)

ConstructWith(sn, scope, card, values) ==
  DiscreteFactor(sn.heap, scope, [i \in DOMAIN scope |-> card[scope[i]]], values, sn.ret)

\* DiscreteFactor(scope, [card of each], values, state_names)
Construct(h, scope, card, values, named) ==
  ConstructWith(IF named THEN NewStateNames(h, scope, card) ELSE Ok(h, None),
                scope, card, values)

NoAssignment == [v \in {} |-> ""]

Called(op, self, other, r, removed, asg, val) ==
  [op |-> op, self |-> self, other |-> other,
   res |-> IF r.exc = "ok" /\ op \in {"copy", "product", "marginalize"}
           THEN Len(objs) + 1 ELSE 0,
   ret |-> r.ret, exc |-> r.exc, varsToRemove |-> removed, assignment |-> asg,
   val |-> val, left |-> last.left - 1,
   pre |-> [i \in DOMAIN objs |-> View(heap, objs[i])]]

\* the call returns: the caller keeps the factor it got; `made` remembers
\* which call made each factor and the constructed factor its chain starts at
Return(op, self, other, r, removed, asg, val) ==
  /\ heap' = r.heap
  /\ last' = Called(op, self, other, r, removed, asg, val)
  /\ objs' = IF last'.res # 0 THEN Append(objs, r.ret) ELSE objs
  /\ made' = IF last'.res # 0
             THEN Append(made, [op |-> op, of |-> self, root |-> made[self].root])
             ELSE made

Start(n) ==
  [op |-> "init", self |-> 0, other |-> 0, res |-> 0, ret |-> None, exc |-> "ok",
   varsToRemove |-> <<>>, assignment |-> NoAssignment, val |-> NoArr, left |-> n,
   pre |-> <<>>]

Constructed(n) == [i \in 1..n |-> [op |-> "init", of |-> 0, root |-> i]]

\* the variables one of f and g lacks: the sets product() iterates
Missing(f, g) ==
  (Range(f.variables) \ Range(g.variables)) \cup (Range(g.variables) \ Range(f.variables))

\* Multiply(objs[i], objs[j]), under every iteration order of the sets
MultiplyCall(i, j) ==
  /\ last.left > 0
  /\ \E order \in Perms(Missing(View(heap, objs[i]), View(heap, objs[j]))) :
       Return("product", i, j, product(heap, objs[i], FactorArg(objs[j]), order),
              <<>>, NoAssignment, NoArr)

\* Marginalize(objs[i], varsToRemove)
MarginalizeCall(i, varsToRemove) ==
  /\ last.left > 0
  /\ \E lenient \in IF Present(View(heap, objs[i])) THEN {FALSE} ELSE BOOLEAN :
       Return("marginalize", i, 0, marginalize(heap, objs[i], varsToRemove, lenient),
              varsToRemove, NoAssignment, NoArr)

\* Clone(objs[i])
CloneCall(i) ==
  /\ last.left > 0
  /\ Return("copy", i, 0, copy(heap, objs[i]), <<>>, NoAssignment, NoArr)

\* ReplaceValues(objs[i], new_values)
ReplaceValuesCall(i, new_values) ==
  /\ last.left > 0
  /\ Return("update_values", i, 0, update_values(heap, objs[i], new_values),
            <<>>, NoAssignment, NoArr)

\* objs[i] * other for an operand that is no factor: a number, or a string
ScaleCall(i, other) ==
  /\ last.left > 0
  /\ Return(IF other.kind = "number" THEN "product_number" ELSE "product_other", i, 0,
            product(heap, objs[i], other, <<>>), <<>>, NoAssignment, NoArr)

\* ValueForAssignment(objs[i], assignment)
LookupCall(i, assignment) ==
  /\ last.left > 0
  /\ LET r == get_value_for_state_vector(heap, objs[i], assignment)
     IN Return("lookup", i, 0, r, <<>>, assignment, r.val)

-----------------------------------------------------------------------------
(* SpecCall: one call on freshly constructed, populated factors.           *)

\* lists of variables to remove: any list of at most n identifiers
RemovalLists(n) == UNION {[1..k -> Vars] : k \in 0..n}

\* assignments of a label, known or not, to any set of variables
Assignments == UNION {[S -> Range(Labels(MaxCard)) \cup {"unknown"}] : S \in SUBSET Vars}

FlatSize(scope, card) == Prod([i \in DOMAIN scope |-> card[scope[i]]])

Populated(h, scope, card, base, named) ==
  Construct(h, scope, card, SomeValues(Ramp(FlatSize(scope, card), base)), named)

Holding(r, held) ==
  /\ heap = r.heap
  /\ objs = Append(held, r.ret)
  /\ made = Constructed(Len(held) + 1)

InitOne ==
  /\ \E card \in [Vars -> 1..MaxCard], base \in 1..MaxBase, scope \in Scopes(MaxLen),
        named \in BOOLEAN :
       Holding(Populated(<<>>, scope, card, base, named), <<>>)
  /\ last = Start(1)

SecondOf(a, scope, card, base) == Holding(Populated(a.heap, scope, card, base, TRUE), <<a.ret>>)

InitTwo ==
  /\ \E card \in [Vars -> 1..MaxCard], base \in 1..MaxBase,
        scopeA \in Scopes(MaxLen), scopeB \in Scopes(MaxLen), named \in BOOLEAN :
       SecondOf(Populated(<<>>, scopeA, card, base, named), scopeB, card, base + 1)
  /\ last = Start(1)

InitCall == InitOne \/ InitTwo

MultiplyPair == Len(objs) = 2 /\ MultiplyCall(1, 2)

MarginalizeOne == Len(objs) = 1 /\ \E vs \in RemovalLists(MaxLen) : MarginalizeCall(1, vs)

LookupOne == Len(objs) = 1 /\ \E asg \in Assignments : LookupCall(1, asg)

NextCall == MultiplyPair \/ MarginalizeOne \/ LookupOne

SpecCall == InitCall /\ [][NextCall]_vars

-----------------------------------------------------------------------------
(* Properties of one call.  Self, Other and Result are what the last call  *)
(* was given (as it stood before the call) and what it returned.           *)

Self == last.pre[last.self]

Other == last.pre[last.other]

Result == View(heap, objs[last.res])

\* the factor a call was made on, as the call left it
Result0 == View(heap, objs[last.self])

CardIn(f, v) == f.cardinality[IndexOf(f.variables, v) + 1]

WellFormed(f) ==
  /\ NoDup(f.variables)
  /\ Len(f.cardinality) = Len(f.variables)
  /\ Present(f) => f.values.shape = f.cardinality

\* complete joint assignments of a state index to every variable of f and g
JointAssignments(f, g) ==
  {x \in [Range(f.variables) \cup Range(g.variables) -> 0..(MaxCard - 1)] :
     /\ \A v \in Range(f.variables) : x[v] < CardIn(f, v)
     /\ \A v \in Range(g.variables) : x[v] < CardIn(g, v)}

CoordOf(f, x) == [i \in DOMAIN f.variables |-> x[f.variables[i]]]

Addressable(f, x) ==
  /\ Len(f.values.shape) = Len(f.variables)
  /\ \A i \in DOMAIN f.variables : x[f.variables[i]] < f.values.shape[i]

ValueAt(f, x) == At(f.values, CoordOf(f, x))

ProductCalled == last.op = "product" /\ last.other # 0

\* C1: Multiply(A, B) of populated factors returns a factor whose value at
\* every joint assignment x over the union scope is A[x|A] * B[x|B].
ProductValueLaw ==
  (ProductCalled /\ Present(Self) /\ Present(Other)) =>
    /\ last.exc = "ok"
    /\ \A x \in JointAssignments(Self, Other) :
         /\ Addressable(Result, x)
         /\ ValueAt(Result, x) = ValueAt(Self, x) * ValueAt(Other, x)

\* C2: every factor that exists with values present has as many variables
\* as cardinalities and buffer axes, extents equal to the cardinalities,
\* and no duplicate variable.
ShapeInvariant ==
  \A i \in DOMAIN objs :
    Present(View(heap, objs[i])) =>
      /\ Len(View(heap, objs[i]).variables) = Len(View(heap, objs[i]).cardinality)
      /\ Len(View(heap, objs[i]).variables) = Len(View(heap, objs[i]).values.shape)
      /\ View(heap, objs[i]).values.shape = View(heap, objs[i]).cardinality
      /\ NoDup(View(heap, objs[i]).variables)

\* the variables of f that are not removed, in the order of f
Kept(f, removed) == SelectSeq(f.variables, LAMBDA v : v \notin Range(removed))

KeptCardinality(f, removed) ==
  [i \in DOMAIN Kept(f, removed) |-> CardIn(f, Kept(f, removed)[i])]

\* the sum of f over every joint assignment that agrees with x on the kept variables
SumOver(f, kept, x) ==
  SumSeq([k \in 1..Size(f.values.shape) |->
            IF \A i \in DOMAIN f.variables :
                 f.variables[i] \in Range(kept) =>
                   Unravel(f.values.shape, k - 1)[i] = x[f.variables[i]]
            THEN f.values.data[k] ELSE 0])

MarginalizeCalled == last.op = "marginalize"

\* C3: Marginalize(F, varsToRemove), every entry in F's scope, returns the
\* kept variables in F's order with their cardinalities, and each value is
\* the sum of F over the states of the removed variables.
MarginalizeCorrect ==
  (/\ MarginalizeCalled
   /\ Present(Self)
   /\ Range(last.varsToRemove) \subseteq Range(Self.variables)) =>
    /\ last.exc = "ok"
    /\ Result.variables = Kept(Self, last.varsToRemove)
    /\ Result.cardinality = KeptCardinality(Self, last.varsToRemove)
    /\ Result.values.shape = Result.cardinality
    /\ \A x \in JointAssignments(Self, Self) :
         At(Result.values, [i \in DOMAIN Result.variables |-> x[Result.variables[i]]])
           = SumOver(Self, Result.variables, x)

\* C4: the variables of Multiply(A, B) are A's variables in A's order, then
\* the variables found only in B, each identifier once; the cardinalities
\* are A's, then B's for each variable found only in B.
ProductScopeClosure ==
  (ProductCalled /\ last.exc = "ok") =>
    /\ SubSeq(Result.variables, 1, Len(Self.variables)) = Self.variables
    /\ SubSeq(Result.cardinality, 1, Len(Self.variables)) = Self.cardinality
    /\ Range(Result.variables) = Range(Self.variables) \cup Range(Other.variables)
    /\ NoDup(Result.variables)
    /\ Len(Result.cardinality) = Len(Result.variables)
    /\ \A i \in (Len(Self.variables) + 1)..Len(Result.variables) :
         /\ Result.variables[i] \in Range(Other.variables) \ Range(Self.variables)
         /\ Result.cardinality[i] = CardIn(Other, Result.variables[i])

ProductScopeClosureWitness ==
  /\ ProductCalled
  /\ last.exc = "ok"
  /\ Cardinality(Range(Other.variables) \ Range(Self.variables)) = 2
  /\ Range(Self.variables) \ Range(Other.variables) # {}
  /\ Result.cardinality[Len(Result.cardinality)] # Result.cardinality[Len(Result.cardinality) - 1]

LookupCalled == last.op = "lookup"

\* state_names holds, for every variable in scope, as many labels as states
Labelled(f) ==
  /\ f.state_names.present
  /\ \A i \in DOMAIN f.variables :
       /\ f.variables[i] \in DOMAIN f.state_names.map
       /\ Len(f.state_names.map[f.variables[i]]) = f.cardinality[i]

ScopeMatches == DOMAIN last.assignment = Range(Self.variables)

LabelsKnown ==
  \A v \in Range(Self.variables) : last.assignment[v] \in Range(Self.state_names.map[v])

LabelCoordinates ==
  [i \in DOMAIN Self.variables |->
     IndexOf(Self.state_names.map[Self.variables[i]], last.assignment[Self.variables[i]])]

\* C9: ValueForAssignment on a populated, fully labelled factor fails with
\* ScopeMismatch exactly when the keys differ from the scope, with
\* UnknownState when a label is not listed, and otherwise returns the entry
\* at the coordinates of the labels; the factor is left as it was.
LookupContract ==
  (LookupCalled /\ Present(Self) /\ Labelled(Self)) =>
    /\ (last.exc = "AssertionError") <=> ~ScopeMatches
    /\ (ScopeMatches /\ ~LabelsKnown) => last.exc = "ValueError"
    /\ (ScopeMatches /\ LabelsKnown) =>
         /\ last.exc = "ok"
         /\ last.val = [shape |-> <<>>, data |-> <<At(Self.values, LabelCoordinates)>>]
    /\ View(heap, objs[last.self]) = Self

\* variables [x, y], flat values [1, 2, 3, 4], {x: s1, y: s0} gives 3
LookupContractWitness ==
  /\ LookupCalled
  /\ Self.variables = <<"x", "y">>
  /\ Self.values = [shape |-> <<2, 2>>, data |-> <<1, 2, 3, 4>>]
  /\ Labelled(Self)
  /\ last.assignment = [v \in {"x", "y"} |-> IF v = "x" THEN "s1" ELSE "s0"]
  /\ last.exc = "ok"
  /\ last.val.data = <<3>>

-----------------------------------------------------------------------------
(* Spec: a caller holding two constructed factors, populated or not, the   *)
(* first labelled or not, makes up to MaxCalls calls on what it holds.     *)

Declared(h, scope, card, base, populated, named) ==
  Construct(h, scope, card,
            IF populated THEN SomeValues(Ramp(FlatSize(scope, card), base)) ELSE NoValues,
            named)

HoldingBoth(a, b) ==
  /\ heap = b.heap
  /\ objs = <<a.ret, b.ret>>
  /\ made = Constructed(2)

DeclaredAfter(a, scope, card, base, populated, named) ==
  HoldingBoth(a, Declared(a.heap, scope, card, base, populated, named))

\* the cardinalities of the held factors: every variable MaxCard, but z
HeldCard == [v \in Vars |-> IF v = "z" THEN 1 ELSE MaxCard]

Init ==
  /\ \E popA \in BOOLEAN, namedA \in BOOLEAN, popB \in BOOLEAN :
       DeclaredAfter(Declared(<<>>, <<"x", "y">>, HeldCard, 1, popA, namedA),
                     <<"y", "z">>, HeldCard, MaxBase, popB, TRUE)
  /\ last = Start(MaxCalls)

Clone == \E i \in DOMAIN objs : CloneCall(i)

\* new values of the right size, or one too many
ReplaceValues ==
  \E i \in DOMAIN objs, extra \in {0, 1} :
    ReplaceValuesCall(i, Ramp(Prod(View(heap, objs[i]).cardinality) + extra, MaxBase + 1))

Multiply == \E i \in DOMAIN objs, j \in DOMAIN objs : MultiplyCall(i, j)

Scale == \E i \in DOMAIN objs : ScaleCall(i, NumberArg(2))

MultiplyOther == \E i \in DOMAIN objs : ScaleCall(i, StringArg)

Marginalize == \E i \in DOMAIN objs, vs \in RemovalLists(1) : MarginalizeCall(i, vs)

\* the assignment of the first label to every variable in scope
FirstLabels(f) == [v \in Range(f.variables) |-> LabelPool[1]]

ValueForAssignment == \E i \in DOMAIN objs : LookupCall(i, FirstLabels(View(heap, objs[i])))

Next ==
  \/ Clone
  \/ ReplaceValues
  \/ Multiply
  \/ Scale
  \/ MultiplyOther
  \/ Marginalize
  \/ ValueForAssignment

Spec == Init /\ [][Next]_vars

-----------------------------------------------------------------------------
(* Properties of sequences of calls.                                       *)

NonMutating == {"product", "product_number", "product_other", "marginalize"}

\* C5: Multiply (by a factor, a number or anything else) and Marginalize,
\* whether they succeed or fail, leave every factor the caller held as it
\* was; no two factors the caller holds share a cell, nor does a returned
\* buffer; and ReplaceValues on one factor changes no other.
OperandsNeverMutated ==
  /\ last.op \in NonMutating =>
       \A i \in DOMAIN last.pre : View(heap, objs[i]) = last.pre[i]
  /\ \A i, j \in DOMAIN objs : i # j => Reach(heap, objs[i]) \cap Reach(heap, objs[j]) = {}
  /\ (last.op = "product_number" /\ last.exc = "ok") =>
       \A i \in DOMAIN objs : last.ret \notin Reach(heap, objs[i])
  /\ last.op = "update_values" =>
       \A i \in DOMAIN last.pre : i # last.self => View(heap, objs[i]) = last.pre[i]

\* values replaced on the product of the two constructed factors
OperandsNeverMutatedWitness ==
  /\ last.op = "update_values"
  /\ last.exc = "ok"
  /\ made[last.self] = [op |-> "product", of |-> 1, root |-> 1]
  /\ Len(View(heap, objs[last.self]).variables) = 3
  /\ View(heap, objs[last.self]).values # last.pre[last.self].values

\* C10: Multiply(A, B) carries an independent copy of A's label mapping and
\* nothing of B's; Marginalize(F, vars) an independent copy of F's whole
\* mapping; so down any chain the mapping is that of the constructed factor
\* the chain starts at, and a lookup resolves labels only for variables
\* labelled there.
DerivedLabels ==
  /\ (last.op \in {"product", "marginalize"} /\ last.exc = "ok") =>
       /\ Result.state_names = Self.state_names
       /\ heap[objs[last.res]].state_names = None
            \/ heap[objs[last.res]].state_names \notin {heap[objs[i]].state_names : i \in DOMAIN last.pre}
  /\ \A k \in DOMAIN objs :
       View(heap, objs[k]).state_names = View(heap, objs[made[k].root]).state_names
  /\ (last.op = "lookup" /\ last.exc = "ok") =>
       \A v \in Range(Self.variables) :
         /\ View(heap, objs[made[last.self].root]).state_names.present
         /\ v \in DOMAIN View(heap, objs[made[last.self].root]).state_names.map

\* a lookup fails on A * B for want of the labels of z, which B has
DerivedLabelsWitness ==
  /\ last.op = "lookup"
  /\ last.exc = "KeyError"
  /\ made[last.self] = [op |-> "product", of |-> 1, root |-> 1]
  /\ "z" \in Range(Self.variables)
  /\ "z" \in DOMAIN View(heap, objs[2]).state_names.map
  /\ "z" \notin DOMAIN Self.state_names.map

-----------------------------------------------------------------------------
(* SpecEdit: the caller clones the factors it holds, replaces values and   *)
(* edits, in place, the lists and the label mapping a factor holds.        *)

Edited(op, i, h) == Return(op, i, 0, Ok(h, None), <<>>, NoAssignment, NoArr)

\* objs[i].variables[0] = "w"
EditVariables ==
  \E i \in DOMAIN objs :
    /\ last.left > 0
    /\ heap[heap[objs[i]].variables].items # <<>>
    /\ Edited("edit_variables", i, [heap EXCEPT ![heap[objs[i]].variables].items[1] = "w"])

\* objs[i].cardinality[0] += 1
EditCardinality ==
  \E i \in DOMAIN objs :
    /\ last.left > 0
    /\ heap[heap[objs[i]].cardinality].items # <<>>
    /\ Edited("edit_cardinality", i, [heap EXCEPT ![heap[objs[i]].cardinality].items[1] = @ + 1])

\* objs[i].state_names[v][0] = "edited"
EditLabels ==
  \E i \in DOMAIN objs :
    /\ last.left > 0
    /\ heap[objs[i]].state_names # None
    /\ \E v \in DOMAIN heap[heap[objs[i]].state_names].map :
         Edited("edit_labels", i,
                [heap EXCEPT ![heap[heap[objs[i]].state_names].map[v]].items[1] = "edited"])

NextEdit ==
  \/ Clone
  \/ ReplaceValues
  \/ EditVariables
  \/ EditCardinality
  \/ EditLabels

SpecEdit == Init /\ [][NextEdit]_vars

Mutating == {"update_values", "edit_variables", "edit_cardinality", "edit_labels"}

\* the factors i and j are a factor and a clone of it
ClonePair(i, j) ==
  \/ made[j].op = "copy" /\ made[j].of = i
  \/ made[i].op = "copy" /\ made[i].of = j

\* C6: Clone(F) returns a factor equal to F that shares no cell with it,
\* populated or not, labelled or not; replacing the values of one of the
\* two, or editing its variables, its cardinalities or its labels, leaves
\* the other as it was.
CloneIndependence ==
  /\ (last.op = "copy" /\ WellFormed(Self)) =>
       /\ last.exc = "ok"
       /\ Result = Self
       /\ View(heap, objs[last.self]) = Self
  /\ \A i, j \in DOMAIN objs :
       ClonePair(i, j) => Reach(heap, objs[i]) \cap Reach(heap, objs[j]) = {}
  /\ last.op \in Mutating =>
       \A i \in DOMAIN last.pre :
         ClonePair(i, last.self) => View(heap, objs[i]) = last.pre[i]

\* a label of the clone of a labelled factor is edited
CloneIndependenceWitness ==
  /\ last.op = "edit_labels"
  /\ made[last.self].op = "copy"
  /\ View(heap, objs[last.self]).state_names # last.pre[last.self].state_names
  /\ View(heap, objs[made[last.self].of]).state_names = last.pre[last.self].state_names

-----------------------------------------------------------------------------
(* SpecAssoc: three populated factors A, B, C; the caller computes A * B,  *)
(* (A * B) * C, B * C and A * (B * C), in this order.                      *)

HoldingThree(a, b, c) ==
  /\ heap = c.heap
  /\ objs = <<a.ret, b.ret, c.ret>>
  /\ made = Constructed(3)

ThirdAfter(a, b, scope, card, base) ==
  HoldingThree(a, b, Populated(b.heap, scope, card, base, FALSE))

SecondAndThird(a, scopeB, scopeC, card, base) ==
  ThirdAfter(a, Populated(a.heap, scopeB, card, base, FALSE), scopeC, card, base + 1)

\* every variable of the same cardinality
EvenCard == [v \in Vars |-> MaxCard]

InitAssoc ==
  /\ \E card \in {HeldCard, EvenCard},
        scopeA \in Scopes(MaxLen), scopeB \in Scopes(MaxLen), scopeC \in Scopes(MaxLen) :
       SecondAndThird(Populated(<<>>, scopeA, card, 1, FALSE), scopeB, scopeC, card, 2)
  /\ last = Start(4)

AssocAB == Len(objs) = 3 /\ last.left = 4 /\ MultiplyCall(1, 2)

AssocABthenC == Len(objs) = 4 /\ last.left = 3 /\ MultiplyCall(4, 3)

AssocBC == Len(objs) = 5 /\ last.left = 2 /\ MultiplyCall(2, 3)

AssocAthenBC == Len(objs) = 6 /\ last.left = 1 /\ MultiplyCall(1, 6)

NextAssoc == AssocAB \/ AssocABthenC \/ AssocBC \/ AssocAthenBC

SpecAssoc == InitAssoc /\ [][NextAssoc]_vars

\* C7: Multiply(Multiply(A, B), C) and Multiply(A, Multiply(B, C)) both
\* succeed and agree at every joint assignment over the three scopes.
Associativity ==
  /\ last.op = "product" => last.exc = "ok"
  /\ Len(objs) = 7 =>
       \A x \in JointAssignments(View(heap, objs[4]), View(heap, objs[6])) :
         /\ Addressable(View(heap, objs[5]), x)
         /\ Addressable(View(heap, objs[7]), x)
         /\ ValueAt(View(heap, objs[5]), x) = ValueAt(View(heap, objs[7]), x)

-----------------------------------------------------------------------------
(* SpecExtend: ExtendWithMissingVariables run twice, on two factors        *)
(* constructed alike, with the same other factor; each run iterates the    *)
(* set of missing variables in the order its hash table gives.             *)

InitExtend ==
  /\ \E card \in [Vars -> 1..MaxCard], scopeA \in Scopes(MaxLen), scopeB \in Scopes(MaxLen) :
       SecondAndThird(Populated(<<>>, scopeA, card, 1, FALSE), scopeA, scopeB, card, 1)
  /\ last = Start(2)

ExtendCall(i, j) ==
  \E order \in Perms(ExtraVars(heap, objs[i], objs[j])) :
    Return("extend", i, j, add_new_variables_from_other_factor(heap, objs[i], objs[j], order),
           <<>>, NoAssignment, NoArr)

ExtendFirst == last.left = 2 /\ ExtendCall(1, 3)

ExtendSecond == last.left = 1 /\ ExtendCall(2, 3)

NextExtend == ExtendFirst \/ ExtendSecond

SpecExtend == InitExtend /\ [][NextExtend]_vars

\* C8: two runs on factors with the same scopes leave the same variables
\* and the same cardinalities, aligned with the variables; with no variable
\* missing the call changes nothing.
ExtensionDeterministic ==
  /\ last.left = 0 =>
       /\ View(heap, objs[1]).variables = View(heap, objs[2]).variables
       /\ View(heap, objs[1]).cardinality = View(heap, objs[2]).cardinality
  /\ last.op = "extend" =>
       /\ \A k \in DOMAIN Result0.variables :
            Result0.variables[k] \in Range(Other.variables) =>
              Result0.cardinality[k] = CardIn(Other, Result0.variables[k])
       /\ Range(Other.variables) \subseteq Range(Self.variables) => Result0 = Self

====
